---- MODULE Spec2Model ----
(***************************************************************************)
(* The durable task queue and worker dispatch of dependency-orchestrator:  *)
(* PostgresTaskQueue (orchestrator/a2a/postgres_queue.py), the worker loop *)
(* PostgresWorker.run (orchestrator/postgres_worker.py), the Redis         *)
(* TaskQueue (orchestrator/a2a/task_queue.py) and UnifiedTaskQueue         *)
(* (orchestrator/a2a/unified_queue.py), which hands its calls to one of    *)
(* the two.                                                                *)
(*                                                                         *)
(* The tasks table is a set of rows, so that a second row with the task_id *)
(* of an existing one is a state the model can express.  The stored        *)
(* procedures get_next_task and update_task_status and the table's schema  *)
(* are SQL that is not among the Python sources; they are modelled from    *)
(* the specification (sections 3, 4.1 and 4.2) and named Sql...            *)
(***************************************************************************)
EXTENDS Integers, FiniteSets, Sequences, TLC

VARIABLES
    tasks,               \* the rows of the PostgreSQL table tasks
    clock,               \* NOW()
    txn,                 \* per worker: the claim transaction in flight (the row it locks)
    pc,                  \* per worker: its position in PostgresWorker.run
    cur,                 \* per worker: the row get_next_task returned to it
    out,                 \* per worker: what _execute_task returned or raised
    consecutive_errors,  \* per worker: the local of PostgresWorker.run
    jobs,                \* the RQ job hashes in Redis, by job id
    rq_queue,            \* the RQ queue: the list of job ids pushed and not yet popped
    last,                \* the latest call of a producer or client, and what it got back
    claims,              \* history: per task_id, how many get_next_task calls returned it
    served,              \* history: the get_next_task calls that found a claimable row
    cancelled_queued,    \* history: the task_ids cancelled with success while queued
    running,             \* per worker: self.running of PostgresWorker
    postgres_up,         \* the environment: PostgreSQL answers
    redis_up,            \* the environment: Redis answers
    unified,             \* _global_unified_queue: the UnifiedTaskQueue of the process
    unreported,          \* history: the task_ids whose terminal write the backend refused
    signalled,           \* history: per worker, where its loop was when the signal arrived
    backoff,             \* per worker: the seconds of the time.sleep(backoff) it is in, or 0
    executions,          \* history: per task_id, how many times _execute_task ran for it
    checked_out,         \* the connections taken from self.pool and not yet put back
    calls                \* per caller: the PostgresTaskQueue method it is in, and where

vars == <<tasks, clock, txn, pc, cur, out, consecutive_errors, jobs, rq_queue, last,
          claims, served, cancelled_queued, running, postgres_up, redis_up, unified,
          unreported, signalled, backoff, executions, checked_out, calls>>
hist == <<claims, served, cancelled_queued>>
env == <<running, postgres_up, redis_up, unified, unreported, signalled>>
pool == <<checked_out, calls>>
ext == <<env, backoff, executions, pool>>

(***************************************************************************)
(* Bounds of the model.                                                    *)
(***************************************************************************)
NumTaskIds == 2
MaxClock == 1
MaxRqQueue == 2
MaxInstances == 2
NumCallers == 3
PoolSize == 2

TaskIds == 1..NumTaskIds
Times == 0..MaxClock
Workers == {"w1", "w2"}
Callers == 1..NumCallers

(***************************************************************************)
(* Values of the program.                                                  *)
(***************************************************************************)
None == "None"
NoId == 0
NullTime == -1
max_consecutive_errors == 5

\* The task types _execute_task dispatches on.
KnownTaskTypes == {"consumer_triage", "template_triage"}
\* The task types producers enqueue here: one that _execute_task knows (it
\* treats the two alike) and one it does not.
TaskTypes == {"consumer_triage", "other_type"}

\* What execute_consumer_triage / execute_template_triage return: the agent's
\* analysis, or the dict they build when the analysis raised.  Both are
\* non-empty dicts.
ContractResults == {"analysis", "analysis_failed"}
\* A result a caller of update_task_status may pass: None, the empty dict, or
\* a non-empty dict.
EmptyDict == "{}"
ApiResults == {None, EmptyDict, "analysis"}
CancelledText == "Cancelled by user"
\* Variant of UnknownTypeText: the message does not name the task type.
UnknownTypeTextBare(task_type) == "Unknown task type"
\* raise ValueError(f"Unknown task type: {task_type}")
UnknownTypeText(task_type) == "Unknown task type: " \o task_type
InvalidTransitionText == "InvalidTransitionError"
ApiErrors == {CancelledText, UnknownTypeText("other_type")}

Min(a, b) == IF a <= b THEN a ELSE b

RECURSIVE SumOver(_, _)
SumOver(f, S) ==
    IF S = {} THEN 0
    ELSE LET x == CHOOSE y \in S : TRUE IN f[x] + SumOver(f, S \ {x})

TerminalStatuses == {"finished", "failed"}
RowStatuses == {"queued", "started"} \cup TerminalStatuses

(***************************************************************************)
(* The tasks table.                                                        *)
(***************************************************************************)
\* Variant of NewRow: the INSERT names a worker.
NewRowAssigned(task_id, task_type) ==
    [task_id |-> task_id, task_type |-> task_type, status |-> "queued",
     created_at |-> clock, started_at |-> NullTime, ended_at |-> NullTime,
     result |-> None, error |-> None, worker_id |-> "w1", attempt_count |-> 0]

\* The row of enqueue_task's INSERT: the columns it does not name are NULL,
\* attempt_count is 0.
NewRow(task_id, task_type) ==
    [task_id |-> task_id, task_type |-> task_type, status |-> "queued",
     created_at |-> clock, started_at |-> NullTime, ended_at |-> NullTime,
     result |-> None, error |-> None, worker_id |-> None, attempt_count |-> 0]

RowsOf(task_id) == {r \in tasks : r.task_id = task_id}
PresentIds == {r.task_id : r \in tasks}

\* The rows an in-flight claim holds locked (SELECT ... FOR UPDATE).
LockedIds == {txn[w].task_id : w \in Workers} \ {NoId}
NoTxn == [task_id |-> NoId, at |-> NullTime]

NoCall == [op |-> "none", task_id |-> NoId, ret |-> None, val |-> [status |-> None]]
Call(op, task_id, ret, val) == [op |-> op, task_id |-> task_id, ret |-> ret, val |-> val]
NoVal == [status |-> None]
NoRow == [task_id |-> NoId, task_type |-> None]
NoQueue == [instance |-> 0, backend_name |-> None]
\* A caller that is in no method of PostgresTaskQueue; outcome is how its
\* latest call ended.
Idle(outcome) == [op |-> None, at |-> "idle", outcome |-> outcome]

Init ==
    /\ tasks = {}
    /\ clock = 0
    /\ txn = [w \in Workers |-> NoTxn]
    /\ pc = [w \in Workers |-> "loop"]
    /\ cur = [w \in Workers |-> NoRow]
    /\ out = [w \in Workers |-> None]
    /\ consecutive_errors = [w \in Workers |-> 0]
    /\ jobs = [j \in TaskIds |-> None]
    /\ rq_queue = <<>>
    /\ last = NoCall
    /\ claims = [t \in TaskIds |-> 0]
    /\ served = 0
    /\ cancelled_queued = {}
    /\ running = [w \in Workers |-> TRUE]
    /\ postgres_up = TRUE
    /\ redis_up = TRUE
    /\ unified = NoQueue
    /\ unreported = {}
    /\ signalled = [w \in Workers |-> None]
    /\ backoff = [w \in Workers |-> 0]
    /\ executions = [t \in TaskIds |-> 0]
    /\ checked_out = 0
    /\ calls = [c \in Callers |-> Idle(None)]

(***************************************************************************)
(* PostgresTaskQueue.                                                      *)
(***************************************************************************)

\* The schema's PRIMARY KEY (task_id): the INSERT of a task_id some row has
\* raises a unique violation.
SqlInsertViolatesKey(task_id) == RowsOf(task_id) # {}

\* task_id = task_id or str(uuid.uuid4()): a generated id is one no row has.
EnqueueIds(task_id) == IF task_id = NoId THEN TaskIds \ PresentIds ELSE {task_id}

\* enqueue_task: the INSERT and conn.commit(); on an exception conn.rollback()
\* and raise.
enqueue_task(task_id, task_type) ==
    \E id \in EnqueueIds(task_id) :
        /\ IF SqlInsertViolatesKey(id)
             THEN /\ tasks' = tasks
                  /\ last' = Call("enqueue_task", id, "raised", NoVal)
             ELSE /\ tasks' = tasks \cup {NewRow(id, task_type)}
                  /\ last' = Call("enqueue_task", id, "returned", NoVal)
        /\ UNCHANGED <<clock, txn, pc, cur, out, consecutive_errors, jobs, rq_queue, hist>>
    /\ UNCHANGED ext

\* The dict get_task_status builds from the row it fetched: its task_id,
\* status, result and error (the other keys copy columns no property here
\* reads from the dict).
StatusDict(r) ==
    [task_id |-> r.task_id, status |-> r.status, result |-> r.result, error |-> r.error]

NotFoundDict(task_id) ==
    [task_id |-> task_id, status |-> "not_found", result |-> None, error |-> "Task not found"]

\* What get_task_status returns: cur.fetchone() of the SELECT by task_id.
StatusOf(task_id) ==
    IF RowsOf(task_id) = {} THEN NotFoundDict(task_id)
    ELSE StatusDict(CHOOSE r \in RowsOf(task_id) : TRUE)

get_task_status(task_id) ==
    /\ last' = Call("get_task_status", task_id, "returned", StatusOf(task_id))
    /\ UNCHANGED <<tasks, clock, txn, pc, cur, out, consecutive_errors, jobs, rq_queue, hist>>
    /\ UNCHANGED ext

\* Variant of CancelMatches: the WHERE clause without its status condition.
CancelMatchesAnyStatus(task_id) == RowsOf(task_id)

\* Variant of CancelMatches: the WHERE clause excludes failed rows only.
CancelMatchesUnlessFailed(task_id) == {r \in RowsOf(task_id) : r.status # "failed"}

\* The rows cancel_task's UPDATE matches:
\* WHERE task_id = %s AND status IN ('queued', 'started').
CancelMatches(task_id) == {r \in RowsOf(task_id) : r.status \in {"queued", "started"}}

\* Variant of CancelledRow: the SET clause leaves the status out.
CancelledRowKeepsStatus(r) == [r EXCEPT !.error = CancelledText, !.ended_at = clock]

\* Variant of CancelledRow: the cancel puts the row back into the queue.
CancelledRowRequeued(r) == [r EXCEPT !.status = "queued", !.error = CancelledText]

\* SET status = 'failed', error = 'Cancelled by user', ended_at = NOW()
CancelledRow(r) == [r EXCEPT !.status = "failed", !.error = CancelledText, !.ended_at = clock]

\* cancel_task: the UPDATE waits for a row an in-flight claim holds locked, so
\* the call completes only when none of its rows is locked; cancelled is
\* cur.rowcount > 0.
cancel_task(task_id) ==
    /\ {r.task_id : r \in CancelMatches(task_id)} \cap LockedIds = {}
    /\ tasks' = (tasks \ CancelMatches(task_id))
                    \cup {CancelledRow(r) : r \in CancelMatches(task_id)}
    /\ last' = Call("cancel_task", task_id,
                    IF CancelMatches(task_id) # {} THEN "True" ELSE "False", NoVal)
    /\ cancelled_queued' = cancelled_queued
            \cup {r.task_id : r \in {q \in CancelMatches(task_id) : q.status = "queued"}}
    /\ UNCHANGED <<clock, txn, pc, cur, out, consecutive_errors, jobs, rq_queue, claims, served>>
    /\ UNCHANGED ext

\* Variant of JsonOrNone: the condition reversed.
JsonOrNoneReversed(result) == IF result \in {None, EmptyDict} THEN result ELSE None

\* Json(result) if result else None: None and the empty dict are both stored
\* as NULL.
JsonOrNone(result) == IF result \in {None, EmptyDict} THEN None ELSE result

\* The stored procedure update_task_status (specification 4.1): a write to a
\* terminal row is rejected unless it repeats the row's status and payload
\* (the result of a finished row, the error of a failed one).
SqlUpdateRejected(r, status, result, error) ==
    /\ r.status \in TerminalStatuses
    /\ ~ /\ status = r.status
         /\ IF status = "finished" THEN result = r.result ELSE error = r.error

SqlUpdateRaises(task_id, status, result, error) ==
    \E r \in RowsOf(task_id) : SqlUpdateRejected(r, status, result, error)

\* The row after an accepted write: unchanged when the row was terminal (the
\* repeated write is a no-op); result is set only on finished, error only on
\* failed (specification 3).
SqlUpdatedRow(r, status, result, error) ==
    IF r.status \in TerminalStatuses THEN r
    ELSE [r EXCEPT !.status = status,
                   !.result = IF status = "finished" THEN result ELSE @,
                   !.error = IF status = "failed" THEN error ELSE @,
                   !.started_at = IF status = "started" /\ @ = NullTime THEN clock ELSE @,
                   !.ended_at = IF status \in TerminalStatuses THEN clock ELSE @]

\* Variant of UpdateRaises: the except branch returns instead of raising.
UpdateNeverRaises(task_id, status, result, error) == FALSE

\* update_task_status raises what the stored procedure raised (conn.rollback();
\* raise).
UpdateRaises(task_id, status, result, error) ==
    SqlUpdateRaises(task_id, status, JsonOrNone(result), error)

\* Variant of UpdatedTasks: the write is not committed.
UpdateNotCommitted(task_id, status, result, error) == tasks

\* The table after update_task_status: committed, or rolled back when it raised.
UpdatedTasks(task_id, status, result, error) ==
    IF UpdateRaises(task_id, status, result, error) THEN tasks
    ELSE (tasks \ RowsOf(task_id))
            \cup {SqlUpdatedRow(r, status, JsonOrNone(result), error) : r \in RowsOf(task_id)}

\* update_task_status called by a client other than the worker loop.
update_task_status(task_id, status, result, error) ==
    /\ task_id \notin LockedIds
    /\ tasks' = UpdatedTasks(task_id, status, result, error)
    /\ last' = Call("update_task_status", task_id,
                    IF UpdateRaises(task_id, status, result, error)
                      THEN InvalidTransitionText ELSE "returned",
                    [status |-> status])
    /\ UNCHANGED <<clock, txn, pc, cur, out, consecutive_errors, jobs, rq_queue, hist>>
    /\ UNCHANGED ext

(***************************************************************************)
(* The claim: PostgresTaskQueue.get_next_task over the stored procedure    *)
(* get_next_task (specification 4.2).                                      *)
(***************************************************************************)

\* Variant of SqlClaimable: the locking read does not skip the rows that are
\* locked.
SqlClaimableLockedToo == {r \in tasks : r.status = "queued"}

\* The queued rows the procedure's locking read may take: those no other
\* in-flight claim holds (FOR UPDATE SKIP LOCKED).
SqlClaimable == {r \in tasks : r.status = "queued" /\ r.task_id \notin LockedIds}

\* Variant of SqlOldest: ORDER BY created_at DESC, task_id DESC LIMIT 1
SqlNewest(S) ==
    CHOOSE r \in S : \A q \in S :
        \/ r.created_at > q.created_at
        \/ r.created_at = q.created_at /\ r.task_id >= q.task_id

\* ORDER BY created_at, task_id LIMIT 1
SqlOldest(S) ==
    CHOOSE r \in S : \A q \in S :
        \/ r.created_at < q.created_at
        \/ r.created_at = q.created_at /\ r.task_id <= q.task_id

\* The row as the procedure's UPDATE leaves it.
SqlClaimedRow(r, w, at) ==
    [r EXCEPT !.status = "started", !.worker_id = w, !.started_at = at,
              !.attempt_count = @ + 1]

\* cur.execute("SELECT * FROM get_next_task(%s)", (worker_id,)): the procedure
\* locks the oldest claimable row, or finds none.
get_next_task_execute(w) ==
    /\ pc[w] = "poll"
    /\ txn' = [txn EXCEPT ![w] =
                  IF SqlClaimable = {} THEN NoTxn
                  ELSE [task_id |-> SqlOldest(SqlClaimable).task_id, at |-> clock]]
    /\ pc' = [pc EXCEPT ![w] = "commit"]
    /\ served' = IF SqlClaimable = {} THEN served ELSE served + 1
    /\ UNCHANGED <<tasks, clock, cur, out, consecutive_errors, jobs, rq_queue, last,
                   claims, cancelled_queued>>
    /\ UNCHANGED ext

\* dict(row): the keys of the returned row the worker reads.
TaskOf(r) == [task_id |-> r.task_id, task_type |-> r.task_type]

\* Variant of ClaimCommitted: get_next_task returns the row without
\* conn.commit(), and the pool rolls the claim back.
ClaimRolledBack(w) == tasks

\* The table after conn.commit() of w's claim.
ClaimCommitted(w) ==
    (tasks \ RowsOf(txn[w].task_id))
        \cup {SqlClaimedRow(r, w, txn[w].at) : r \in RowsOf(txn[w].task_id)}

\* row = cur.fetchone(); conn.commit(); return dict(row), or None without a
\* row.  In PostgresWorker.run a None makes the worker sleep poll_interval,
\* reset consecutive_errors and poll again.
get_next_task_commit(w) ==
    /\ pc[w] = "commit"
    /\ txn' = [txn EXCEPT ![w] = NoTxn]
    /\ IF txn[w].task_id = NoId
         THEN /\ consecutive_errors' = [consecutive_errors EXCEPT ![w] = 0]
              /\ pc' = [pc EXCEPT ![w] = "loop"]
              /\ UNCHANGED <<tasks, cur, claims>>
         ELSE /\ tasks' = ClaimCommitted(w)
              /\ claims' = [claims EXCEPT ![txn[w].task_id] = @ + 1]
              /\ cur' = [cur EXCEPT ![w] =
                            TaskOf(CHOOSE r \in RowsOf(txn[w].task_id) : TRUE)]
              /\ pc' = [pc EXCEPT ![w] = "execute"]
              /\ UNCHANGED consecutive_errors
    /\ UNCHANGED <<clock, out, jobs, rq_queue, last, served, cancelled_queued>>
    /\ UNCHANGED ext

(***************************************************************************)
(* PostgresWorker.                                                         *)
(***************************************************************************)

\* _execute_task: the triage of a known task type returns a result; any other
\* task type raises ValueError.
ExecuteRaises(task) == task.task_type \notin KnownTaskTypes
ExecuteOutcomes(task) ==
    IF ExecuteRaises(task) THEN {UnknownTypeText(task.task_type)} ELSE ContractResults

\* result = asyncio.run(self._execute_task(task))
execute_task(w) ==
    /\ pc[w] = "execute"
    /\ \E o \in ExecuteOutcomes(cur[w]) :
          /\ out' = [out EXCEPT ![w] = o]
          /\ pc' = [pc EXCEPT ![w] =
                       IF ExecuteRaises(cur[w]) THEN "report_failed" ELSE "report_finished"]
    /\ executions' = [executions EXCEPT ![cur[w].task_id] = @ + 1]
    /\ UNCHANGED <<tasks, clock, txn, cur, consecutive_errors, jobs, rq_queue, last, hist>>
    /\ UNCHANGED <<env, backoff, pool>>

\* update_task_status(task_id, status='finished', result=result), inside the
\* inner try: what it raises is caught as task_error like a failure of the
\* task, and is then reported as the task's error.
report_finished(w) ==
    /\ pc[w] = "report_finished"
    /\ cur[w].task_id \notin LockedIds
    /\ tasks' = UpdatedTasks(cur[w].task_id, "finished", out[w], None)
    /\ IF UpdateRaises(cur[w].task_id, "finished", out[w], None)
         THEN /\ out' = [out EXCEPT ![w] = InvalidTransitionText]
              /\ pc' = [pc EXCEPT ![w] = "report_failed"]
              /\ UNCHANGED consecutive_errors
         ELSE /\ consecutive_errors' = [consecutive_errors EXCEPT ![w] = 0]
              /\ pc' = [pc EXCEPT ![w] = "loop"]
              /\ out' = [out EXCEPT ![w] = None]
    /\ cur' = [cur EXCEPT ![w] = IF pc'[w] = "loop" THEN NoRow ELSE @]
    /\ UNCHANGED <<clock, txn, jobs, rq_queue, last, hist>>
    /\ UNCHANGED ext

\* Variant of TaskErrorText: the exception's repr instead of its message.
TaskErrorRepr(e) == "ValueError('" \o e \o "')"

\* error=str(task_error): the message of the exception.
TaskErrorText(e) == e

\* The worker's next position after the outer except Exception: with
\* max_consecutive_errors reached the loop breaks (the worker stops),
\* otherwise it backs off and polls again.
AfterSystemError(errors) == IF errors >= max_consecutive_errors THEN "stopped" ELSE "loop"

\* Variant of Backoff: the delay grows by two seconds with every error.
BackoffLinear(errors) == Min(30, 2 * errors)

\* backoff = min(30, 2 ** consecutive_errors)
Backoff(errors) == Min(30, 2 ^ errors)

\* The time.sleep(backoff) that follows the outer except Exception: the break
\* stands before it, so a worker that stops does not sleep.
SleepAfterSystemError(errors) ==
    IF errors >= max_consecutive_errors THEN 0 ELSE Backoff(errors)

\* except Exception as task_error: update_task_status(task_id, status='failed',
\* error=str(task_error)) and consecutive_errors = 0.  What this call raises
\* leaves the inner handler and reaches the outer except Exception:
\* consecutive_errors += 1.
report_failed(w) ==
    /\ pc[w] = "report_failed"
    /\ cur[w].task_id \notin LockedIds
    /\ tasks' = UpdatedTasks(cur[w].task_id, "failed", None, TaskErrorText(out[w]))
    /\ IF UpdateRaises(cur[w].task_id, "failed", None, TaskErrorText(out[w]))
         THEN /\ consecutive_errors' =
                     [consecutive_errors EXCEPT ![w] = consecutive_errors[w] + 1]
              /\ pc' = [pc EXCEPT ![w] = AfterSystemError(consecutive_errors[w] + 1)]
              /\ backoff' = [backoff EXCEPT ![w] =
                                SleepAfterSystemError(consecutive_errors[w] + 1)]
         ELSE /\ consecutive_errors' = [consecutive_errors EXCEPT ![w] = 0]
              /\ pc' = [pc EXCEPT ![w] = "loop"]
              /\ UNCHANGED backoff
    /\ cur' = [cur EXCEPT ![w] = NoRow]
    /\ out' = [out EXCEPT ![w] = None]
    /\ UNCHANGED <<clock, txn, jobs, rq_queue, last, hist>>
    /\ UNCHANGED <<env, executions, pool>>

\* while self.running: the loop goes on to the poll, or ends.  The worker is
\* at "loop" from the end of one iteration (its sleep included) to the
\* evaluation of the condition, which it reaches with the sleep over.
loop_condition(w) ==
    /\ pc[w] = "loop"
    /\ pc' = [pc EXCEPT ![w] = IF running[w] THEN "poll" ELSE "stopped"]
    /\ backoff' = [backoff EXCEPT ![w] = 0]
    /\ UNCHANGED <<tasks, clock, txn, cur, out, consecutive_errors, jobs, rq_queue, last, hist>>
    /\ UNCHANGED <<env, executions, pool>>

\* One step of worker w's loop.
Worker(w) ==
    \/ loop_condition(w)
    \/ get_next_task_execute(w)
    \/ get_next_task_commit(w)
    \/ execute_task(w)
    \/ report_finished(w)
    \/ report_failed(w)

(***************************************************************************)
(* The system on the PostgreSQL backend: producers, clients and workers.   *)
(***************************************************************************)

\* Time passes.
Tick ==
    /\ clock < MaxClock
    /\ clock' = clock + 1
    /\ UNCHANGED <<tasks, txn, pc, cur, out, consecutive_errors, jobs, rq_queue, last, hist>>
    /\ UNCHANGED ext

Enqueue == \E id \in TaskIds \cup {NoId}, ty \in TaskTypes : enqueue_task(id, ty)
GetStatus == \E id \in TaskIds : get_task_status(id)
Cancel == \E id \in TaskIds : cancel_task(id)
WorkerStep == \E w \in Workers : Worker(w)

Next ==
    \/ Tick
    \/ Enqueue
    \/ GetStatus
    \/ Cancel
    \/ WorkerStep

Spec == Init /\ [][Next]_vars

(***************************************************************************)
(* The same system with further callers of update_task_status: a status    *)
(* with its payload, the result of a finished task or the error of a       *)
(* failed one (specification 4.1: updateStatus(task_id, status,            *)
(* result|error)).                                                         *)
(***************************************************************************)
ApiWrites ==
    {[status |-> "finished", result |-> r, error |-> None] : r \in ApiResults}
        \cup {[status |-> "failed", result |-> None, error |-> e] : e \in ApiErrors}
        \cup {[status |-> "started", result |-> None, error |-> None]}

UpdateStatus ==
    \E id \in TaskIds, wr \in ApiWrites :
        update_task_status(id, wr.status, wr.result, wr.error)

\* One worker process runs beside these callers.
ApiWorkerStep == Worker("w1")

NextApi ==
    \/ Enqueue
    \/ Cancel
    \/ ApiWorkerStep
    \/ UpdateStatus

SpecApi == Init /\ [][NextApi]_vars

(***************************************************************************)
(* The system without cancellation, every worker running its loop: each    *)
(* worker process keeps taking the steps of PostgresWorker.run.            *)
(***************************************************************************)
LiveNext ==
    \/ Tick
    \/ Enqueue
    \/ WorkerStep

LiveSpec == Init /\ [][LiveNext]_vars /\ \A w \in Workers : WF_vars(Worker(w))

(***************************************************************************)
(* The worker against a backend that can fail, and the termination signal. *)
(* One worker process is followed.  A call made while PostgreSQL does not  *)
(* answer fails at self._get_connection(), which stands before the try of  *)
(* every method, or inside the try, at cur.execute or conn.commit.         *)
(***************************************************************************)
FaultWorkers == {"w1"}

\* str(e) of the database driver's exception.
BackendErrorText == "OperationalError"

\* _handle_shutdown: self.running = False.  The handler runs between two
\* steps of the loop, wherever the loop is.
handle_shutdown(w) ==
    /\ running[w]
    /\ pc[w] # "stopped"
    /\ running' = [running EXCEPT ![w] = FALSE]
    /\ signalled' = [signalled EXCEPT ![w] = pc[w]]
    /\ UNCHANGED <<tasks, clock, txn, pc, cur, out, consecutive_errors, jobs, rq_queue, last,
                   hist, postgres_up, redis_up, unified, unreported, backoff, executions, pool>>

\* The environment: PostgreSQL stops answering, or answers again.
PostgresDown ==
    /\ postgres_up
    /\ postgres_up' = FALSE
    /\ UNCHANGED <<tasks, clock, txn, pc, cur, out, consecutive_errors, jobs, rq_queue, last,
                   hist, running, redis_up, unified, unreported, signalled,
                   backoff, executions, pool>>

PostgresUp ==
    /\ ~postgres_up
    /\ postgres_up' = TRUE
    /\ UNCHANGED <<tasks, clock, txn, pc, cur, out, consecutive_errors, jobs, rq_queue, last,
                   hist, running, redis_up, unified, unreported, signalled,
                   backoff, executions, pool>>

\* get_next_task with the backend failing.  Inside the try the failure is
\* caught: conn.rollback(), log, return None, and the worker takes the None
\* for an empty queue (sleep, consecutive_errors = 0).  Outside it (the
\* connection cannot be taken from the pool, or the rollback raises on a
\* lost connection) the exception reaches the outer except Exception of the
\* loop.  The claim in flight is rolled back either way, and the call is
\* not one that served a row.
get_next_task_fails(w, caught) ==
    /\ pc[w] \in {"poll", "commit"}
    /\ txn' = [txn EXCEPT ![w] = NoTxn]
    /\ IF caught
         THEN /\ consecutive_errors' = [consecutive_errors EXCEPT ![w] = 0]
              /\ pc' = [pc EXCEPT ![w] = "loop"]
              /\ UNCHANGED backoff
         ELSE /\ consecutive_errors' =
                     [consecutive_errors EXCEPT ![w] = consecutive_errors[w] + 1]
              /\ pc' = [pc EXCEPT ![w] = AfterSystemError(consecutive_errors[w] + 1)]
              /\ backoff' = [backoff EXCEPT ![w] =
                                SleepAfterSystemError(consecutive_errors[w] + 1)]
    /\ served' = IF txn[w].task_id = NoId THEN served ELSE served - 1
    /\ UNCHANGED <<tasks, clock, cur, out, jobs, rq_queue, last, claims, cancelled_queued, env,
                   executions, pool>>

\* update_task_status(finished) with the backend failing: it raises inside
\* the inner try, so the worker goes on to report the task as failed with
\* the text of that exception.
report_finished_fails(w) ==
    /\ pc[w] = "report_finished"
    /\ out' = [out EXCEPT ![w] = BackendErrorText]
    /\ pc' = [pc EXCEPT ![w] = "report_failed"]
    /\ UNCHANGED <<tasks, clock, txn, cur, consecutive_errors, jobs, rq_queue, last, hist, ext>>

\* update_task_status(failed) with the backend failing: it raises out of the
\* inner handler into the outer except Exception; the row is not written.
report_failed_fails(w) ==
    /\ pc[w] = "report_failed"
    /\ consecutive_errors' = [consecutive_errors EXCEPT ![w] = consecutive_errors[w] + 1]
    /\ pc' = [pc EXCEPT ![w] = AfterSystemError(consecutive_errors[w] + 1)]
    /\ backoff' = [backoff EXCEPT ![w] = SleepAfterSystemError(consecutive_errors[w] + 1)]
    /\ unreported' = unreported \cup {cur[w].task_id}
    /\ cur' = [cur EXCEPT ![w] = NoRow]
    /\ out' = [out EXCEPT ![w] = None]
    /\ UNCHANGED <<tasks, clock, txn, jobs, rq_queue, last, hist, running, postgres_up,
                   redis_up, unified, signalled, executions, pool>>

\* PostgresTaskQueue.cancel_task with the backend failing: inside the try
\* the failure is caught and False is returned; at self._get_connection()
\* it is raised to the caller.
cancel_task_fails(task_id, caught) ==
    /\ last' = Call("cancel_task", task_id, IF caught THEN "False" ELSE "raised", NoVal)
    /\ UNCHANGED <<tasks, clock, txn, pc, cur, out, consecutive_errors, jobs, rq_queue,
                   hist, ext>>

\* One step of worker w with the backend as it is.
FaultWorker(w) ==
    \/ loop_condition(w)
    \/ execute_task(w)
    \/ postgres_up /\ get_next_task_execute(w)
    \/ postgres_up /\ get_next_task_commit(w)
    \/ postgres_up /\ report_finished(w)
    \/ postgres_up /\ report_failed(w)
    \/ ~postgres_up /\ \E caught \in BOOLEAN : get_next_task_fails(w, caught)
    \/ ~postgres_up /\ report_finished_fails(w)
    \/ ~postgres_up /\ report_failed_fails(w)

FaultWorkerStep == \E w \in FaultWorkers : FaultWorker(w)
FaultEnqueue == postgres_up /\ Enqueue
FaultCancel ==
    \/ postgres_up /\ Cancel
    \/ ~postgres_up /\ \E id \in TaskIds, caught \in BOOLEAN : cancel_task_fails(id, caught)
Shutdown == \E w \in FaultWorkers : handle_shutdown(w)

NextFault ==
    \/ FaultEnqueue
    \/ FaultCancel
    \/ FaultWorkerStep
    \/ Shutdown
    \/ PostgresDown
    \/ PostgresUp

SpecFault == Init /\ [][NextFault]_vars

(***************************************************************************)
(* The worker when PostgreSQL stops answering for good: the worker process *)
(* keeps taking the steps of its loop.                                     *)
(***************************************************************************)
NextDead ==
    \/ FaultEnqueue
    \/ FaultWorkerStep
    \/ PostgresDown

LiveDead == Init /\ [][NextDead]_vars /\ \A w \in FaultWorkers : WF_vars(FaultWorker(w))

(***************************************************************************)
(* The worker when PostgreSQL fails for a while and answers again: every   *)
(* outage ends, and the worker process keeps taking the steps of its loop. *)
(***************************************************************************)
NextOutage ==
    \/ FaultEnqueue
    \/ FaultWorkerStep
    \/ PostgresDown
    \/ PostgresUp

LiveOutage ==
    /\ Init /\ [][NextOutage]_vars
    /\ \A w \in FaultWorkers : WF_vars(FaultWorker(w))
    /\ WF_vars(PostgresUp)

(***************************************************************************)
(* The Redis backend: TaskQueue over RQ.  A job is kept by its id, with    *)
(* its status; the queue is the list of the ids pushed.  Job.fetch,        *)
(* Queue.enqueue and Job.cancel are RQ's; a call that cannot reach Redis   *)
(* raises a connection error.                                              *)
(***************************************************************************)
RedisPresentIds == {j \in TaskIds : jobs[j] # None}

\* job_id=task_id: RQ generates the id of a job enqueued without one.
RedisEnqueueIds(task_id) == IF task_id = NoId THEN TaskIds \ RedisPresentIds ELSE {task_id}

RECURSIVE WithoutId(_, _)
WithoutId(q, id) ==
    IF q = <<>> THEN <<>>
    ELSE IF Head(q) = id THEN WithoutId(Tail(q), id)
    ELSE <<Head(q)>> \o WithoutId(Tail(q), id)

\* TaskQueue.enqueue_task: self.queue.enqueue(func, job_id=task_id, ...) saves
\* the job under its id, whatever was saved there, and pushes the id; the
\* method has no handler, so a connection error reaches the caller.
redis_enqueue_task(task_id, reachable) ==
    /\ Len(rq_queue) < MaxRqQueue
    /\ \E id \in RedisEnqueueIds(task_id) :
          IF reachable
            THEN /\ jobs' = [jobs EXCEPT ![id] = "queued"]
                 /\ rq_queue' = Append(rq_queue, id)
                 /\ last' = Call("enqueue_task", id, "returned", NoVal)
            ELSE /\ last' = Call("enqueue_task", id, "raised", NoVal)
                 /\ UNCHANGED <<jobs, rq_queue>>
    /\ UNCHANGED <<tasks, clock, txn, pc, cur, out, consecutive_errors, hist>>
    /\ UNCHANGED ext

\* The dict TaskQueue.get_task_status builds from the fetched job: result
\* when the job is finished, error when it is failed.
RedisStatusDict(task_id) ==
    [task_id |-> task_id, status |-> jobs[task_id],
     result |-> IF jobs[task_id] = "finished" THEN "job.result" ELSE None,
     error |-> IF jobs[task_id] = "failed" THEN "job.exc_info" ELSE None]

\* TaskQueue.get_task_status: whatever the try block raises, RQ's no-such-job
\* error of Job.fetch or a connection error, is answered with status
\* not_found and str(e).
redis_get_task_status(task_id, reachable) ==
    /\ last' = Call("get_task_status", task_id, "returned",
                    IF ~reachable
                      THEN [task_id |-> task_id, status |-> "not_found",
                            result |-> None, error |-> "ConnectionError"]
                    ELSE IF jobs[task_id] = None
                      THEN [task_id |-> task_id, status |-> "not_found",
                            result |-> None, error |-> "NoSuchJobError"]
                    ELSE RedisStatusDict(task_id))
    /\ UNCHANGED <<tasks, clock, txn, pc, cur, out, consecutive_errors, jobs, rq_queue, hist>>
    /\ UNCHANGED ext

\* job.cancel() of RQ: a job that is already canceled raises; otherwise the
\* job leaves the queue and, depending on the RQ release, keeps its status or
\* becomes canceled.
RqCancelRaises(status) == status = "canceled"
RqCancelStatuses(status) == {status, "canceled"}

\* TaskQueue.cancel_task: True when Job.fetch and job.cancel() raised nothing,
\* False when either raised.
redis_cancel_task(task_id, reachable) ==
    /\ IF reachable /\ jobs[task_id] # None /\ ~RqCancelRaises(jobs[task_id])
         THEN /\ \E st \in RqCancelStatuses(jobs[task_id]) :
                    jobs' = [jobs EXCEPT ![task_id] = st]
              /\ rq_queue' = WithoutId(rq_queue, task_id)
              /\ last' = Call("cancel_task", task_id, "True", NoVal)
         ELSE /\ last' = Call("cancel_task", task_id, "False", NoVal)
              /\ UNCHANGED <<jobs, rq_queue>>
    /\ UNCHANGED <<tasks, clock, txn, pc, cur, out, consecutive_errors, hist>>
    /\ UNCHANGED ext

\* The RQ worker (rq worker, with the task functions imported) takes the id
\* at the head of the queue and starts its job.
rq_worker_start ==
    /\ rq_queue # <<>>
    /\ rq_queue' = Tail(rq_queue)
    /\ jobs' = [jobs EXCEPT ![Head(rq_queue)] = IF @ = None THEN None ELSE "started"]
    /\ UNCHANGED <<tasks, clock, txn, pc, cur, out, consecutive_errors, last, hist>>
    /\ UNCHANGED ext

\* The RQ worker ends a job it started: finished, or failed.
rq_worker_end(task_id, status) ==
    /\ jobs[task_id] = "started"
    /\ jobs' = [jobs EXCEPT ![task_id] = status]
    /\ UNCHANGED <<tasks, clock, txn, pc, cur, out, consecutive_errors, rq_queue, last, hist>>
    /\ UNCHANGED ext

RedisEnqueue ==
    \E id \in TaskIds \cup {NoId}, reachable \in BOOLEAN : redis_enqueue_task(id, reachable)
RedisGetStatus ==
    \E id \in TaskIds, reachable \in BOOLEAN : redis_get_task_status(id, reachable)
RedisCancel ==
    \E id \in TaskIds, reachable \in BOOLEAN : redis_cancel_task(id, reachable)
RqWorkerEnd ==
    \E id \in TaskIds, status \in TerminalStatuses : rq_worker_end(id, status)

NextRedis ==
    \/ RedisEnqueue
    \/ RedisGetStatus
    \/ RedisCancel
    \/ rq_worker_start
    \/ RqWorkerEnd

SpecRedis == Init /\ [][NextRedis]_vars

(***************************************************************************)
(* UnifiedTaskQueue: the backend chosen at construction, the global        *)
(* instance of get_unified_queue, and the calls it hands to its backend.   *)
(* Jobs also reach Redis from callers of get_task_queue, and the RQ worker *)
(* runs them.                                                              *)
(***************************************************************************)

\* get_postgres_queue(): PostgresTaskQueue() opens its connection pool in
\* __init__ and raises when PostgreSQL does not answer.
PostgresConstructs == postgres_up

\* get_redis_queue(): TaskQueue() builds its Redis client and its Queue from
\* the URL and sends nothing to Redis; it returns whether Redis answers or
\* not.
RedisConstructs == TRUE

\* _initialize_backend: PostgreSQL when USE_POSTGRESQL is true and the queue
\* can be constructed, otherwise Redis; None stands for the RuntimeError
\* raised when the Redis queue cannot be constructed either.
InitializedBackend(use_postgresql) ==
    IF use_postgresql /\ PostgresConstructs THEN "postgresql"
    ELSE IF RedisConstructs THEN "redis"
    ELSE None

\* Variant of ReuseGlobal: every call constructs a queue.
NeverReuseGlobal == FALSE

\* if _global_unified_queue is None: ... ; the instance is reused otherwise.
ReuseGlobal == unified # NoQueue

\* get_unified_queue() in a process whose environment has USE_POSTGRESQL as
\* given: returns the global instance, after constructing it when there is
\* none.  A construction that raises leaves the global unset.
get_unified_queue(use_postgresql) ==
    /\ IF ReuseGlobal
         THEN /\ unified' = unified
              /\ last' = Call("get_unified_queue", unified.instance, "returned",
                              [status |-> unified.backend_name])
         ELSE /\ unified.instance < MaxInstances
              /\ IF InitializedBackend(use_postgresql) = None
                   THEN /\ unified' = unified
                        /\ last' = Call("get_unified_queue", NoId, "raised", NoVal)
                   ELSE /\ unified' = [instance |-> unified.instance + 1,
                                       backend_name |-> InitializedBackend(use_postgresql)]
                        /\ last' = Call("get_unified_queue", unified.instance + 1, "returned",
                                        [status |-> InitializedBackend(use_postgresql)])
    /\ UNCHANGED <<tasks, clock, txn, pc, cur, out, consecutive_errors, jobs, rq_queue, hist,
                   running, postgres_up, redis_up, unreported, signalled,
                   backoff, executions, pool>>

\* A call that raises to its caller and writes nothing.
CallRaises(op, task_id) ==
    /\ last' = Call(op, task_id, "raised", NoVal)
    /\ UNCHANGED <<tasks, clock, txn, pc, cur, out, consecutive_errors, jobs, rq_queue,
                   hist, ext>>

\* orchestrator.a2a.tasks defines execute_consumer_triage and
\* execute_template_triage only; the names execute_consumer_triage_sync and
\* execute_template_triage_sync that the Redis branch imports are not there.
SyncWrappersDefined == FALSE

\* enqueue_consumer_triage: on PostgreSQL, backend.enqueue_task with a
\* generated task_id; on Redis, the import of the function to enqueue comes
\* first.
unified_enqueue_consumer_triage ==
    /\ unified # NoQueue
    /\ IF unified.backend_name = "postgresql"
         THEN IF postgres_up THEN enqueue_task(NoId, "consumer_triage")
              ELSE CallRaises("enqueue_task", NoId)
         ELSE IF SyncWrappersDefined THEN redis_enqueue_task(NoId, redis_up)
              ELSE CallRaises("enqueue_task", NoId)

\* get_task_status: self.backend.get_task_status(task_id).  PostgresTaskQueue
\* has no handler there (try ... finally), so a database error is raised.
unified_get_task_status(task_id) ==
    /\ unified # NoQueue
    /\ IF unified.backend_name = "postgresql"
         THEN IF postgres_up THEN get_task_status(task_id)
              ELSE CallRaises("get_task_status", task_id)
         ELSE redis_get_task_status(task_id, redis_up)

\* cancel_task: self.backend.cancel_task(task_id).
unified_cancel_task(task_id) ==
    /\ unified # NoQueue
    /\ IF unified.backend_name = "postgresql"
         THEN IF postgres_up THEN cancel_task(task_id)
              ELSE \E caught \in BOOLEAN : cancel_task_fails(task_id, caught)
         ELSE redis_cancel_task(task_id, redis_up)

\* get_queue_stats: stats = self.backend.get_queue_stats(); stats['backend'] =
\* self.backend_name.  PostgresTaskQueue.get_queue_stats raises a database
\* error; TaskQueue has no method get_queue_stats, so the attribute lookup
\* raises.
unified_get_queue_stats ==
    /\ unified # NoQueue
    /\ IF unified.backend_name = "postgresql" /\ postgres_up
         THEN /\ last' = Call("get_queue_stats", NoId, "returned",
                              [status |-> unified.backend_name])
              /\ UNCHANGED <<tasks, clock, txn, pc, cur, out, consecutive_errors, jobs,
                             rq_queue, hist, ext>>
         ELSE CallRaises("get_queue_stats", NoId)

\* The keys of the dict get_task_status returns for a stored task.
PostgresStatusKeys ==
    {"task_id", "status", "skill_name", "task_type", "source_repo", "target_repo",
     "created_at", "started_at", "ended_at", "result", "error", "worker_id", "attempt_count"}
RedisStatusKeys(status) ==
    {"task_id", "status", "created_at", "started_at", "ended_at"}
        \cup (IF status = "finished" THEN {"result"} ELSE {})
        \cup (IF status = "failed" THEN {"error"} ELSE {})
StatusKeys(backend_name, status) ==
    IF backend_name = "postgresql" THEN PostgresStatusKeys ELSE RedisStatusKeys(status)

\* The environment: Redis stops answering, or answers again.
RedisDown ==
    /\ redis_up
    /\ redis_up' = FALSE
    /\ UNCHANGED <<tasks, clock, txn, pc, cur, out, consecutive_errors, jobs, rq_queue, last,
                   hist, running, postgres_up, unified, unreported, signalled,
                   backoff, executions, pool>>

RedisUp ==
    /\ ~redis_up
    /\ redis_up' = TRUE
    /\ UNCHANGED <<tasks, clock, txn, pc, cur, out, consecutive_errors, jobs, rq_queue, last,
                   hist, running, postgres_up, unified, unreported, signalled,
                   backoff, executions, pool>>

GetUnifiedQueue == \E use_postgresql \in BOOLEAN : get_unified_queue(use_postgresql)
UnifiedGetStatus == \E id \in TaskIds : unified_get_task_status(id)
UnifiedCancel == \E id \in TaskIds : unified_cancel_task(id)
\* The skills enqueue on get_task_queue(), with RQ generating the job id.
SkillEnqueue == redis_enqueue_task(NoId, redis_up)

NextUnified ==
    \/ GetUnifiedQueue
    \/ unified_enqueue_consumer_triage
    \/ UnifiedGetStatus
    \/ UnifiedCancel
    \/ unified_get_queue_stats
    \/ SkillEnqueue
    \/ rq_worker_start
    \/ RqWorkerEnd
    \/ PostgresDown
    \/ PostgresUp
    \/ RedisDown
    \/ RedisUp

SpecUnified == Init /\ [][NextUnified]_vars

(***************************************************************************)
(* PostgresTaskQueue.get_queue_stats, over a table of any content.  The    *)
(* clock counts half days here, and the call is made at MaxStatTime.       *)
(***************************************************************************)
MaxStatTime == 3
\* INTERVAL '24 hours'
Day == 2
StatTimes == 0..MaxStatTime

\* A row as enqueue_task, the claim, the completion reports and cancel_task
\* leave it: queued rows have neither started_at nor ended_at, started rows
\* have no ended_at, terminal rows have an ended_at, and a terminal row that
\* was never claimed has no started_at.
StatRow(task_id, task_type, status, created_at, started_at, ended_at) ==
    [task_id |-> task_id, task_type |-> task_type, status |-> status,
     created_at |-> created_at, started_at |-> started_at, ended_at |-> ended_at,
     result |-> IF status = "finished" THEN "analysis" ELSE None,
     error |-> IF status = "failed" THEN CancelledText ELSE None,
     worker_id |-> IF started_at = NullTime THEN None ELSE "w1",
     attempt_count |-> IF started_at = NullTime THEN 0 ELSE 1]

StatRowsOf(task_id) ==
    {StatRow(task_id, ty, st, c, s, e) :
        ty \in TaskTypes, st \in RowStatuses,
        c \in StatTimes, s \in StatTimes \cup {NullTime}, e \in StatTimes \cup {NullTime}}

WellTimed(r) ==
    /\ r.started_at # NullTime => r.created_at <= r.started_at
    /\ r.ended_at # NullTime => r.created_at <= r.ended_at
    /\ r.started_at # NullTime /\ r.ended_at # NullTime => r.started_at <= r.ended_at
    /\ r.status = "queued" => r.started_at = NullTime
    /\ r.status = "started" => r.started_at # NullTime
    /\ r.status \in TerminalStatuses <=> r.ended_at # NullTime

\* The tables with at most one row for each of the task_ids.
RECURSIVE StatTables(_)
StatTables(ids) ==
    IF ids = {} THEN {{}}
    ELSE LET id == CHOOSE i \in ids : TRUE
             rows == {{}} \cup {{r} : r \in {q \in StatRowsOf(id) : WellTimed(q)}}
         IN  {row \cup T : row \in rows, T \in StatTables(ids \ {id})}

InitStats ==
    /\ tasks \in StatTables(TaskIds)
    /\ clock = MaxStatTime
    /\ txn = [w \in Workers |-> NoTxn]
    /\ pc = [w \in Workers |-> "loop"]
    /\ cur = [w \in Workers |-> NoRow]
    /\ out = [w \in Workers |-> None]
    /\ consecutive_errors = [w \in Workers |-> 0]
    /\ jobs = [j \in TaskIds |-> None]
    /\ rq_queue = <<>>
    /\ last = NoCall
    /\ claims = [t \in TaskIds |-> 0]
    /\ served = 0
    /\ cancelled_queued = {}
    /\ running = [w \in Workers |-> TRUE]
    /\ postgres_up = TRUE
    /\ redis_up = TRUE
    /\ unified = NoQueue
    /\ unreported = {}
    /\ signalled = [w \in Workers |-> None]
    /\ backoff = [w \in Workers |-> 0]
    /\ executions = [t \in TaskIds |-> 0]
    /\ checked_out = 0
    /\ calls = [c \in Callers |-> Idle(None)]

\* SELECT status, COUNT(*) FROM tasks GROUP BY status: a status without rows
\* has no entry.
StatusCounts ==
    [st \in {r.status : r \in tasks} |-> Cardinality({r \in tasks : r.status = st})]

\* created_at > NOW() - INTERVAL '24 hours'
InLastDay(t) == t > clock - Day

\* SELECT task_type, COUNT(*) ... WHERE created_at > NOW() - INTERVAL '24 hours'
\* GROUP BY task_type
TypeCounts ==
    [ty \in {r.task_type : r \in {q \in tasks : InLastDay(q.created_at)}} |->
        Cardinality({r \in tasks : r.task_type = ty /\ InLastDay(r.created_at)})]

\* WHERE status = 'finished' AND ended_at IS NOT NULL
\*   AND created_at > NOW() - INTERVAL '24 hours'
AvgRows ==
    {r \in tasks : r.status = "finished" /\ r.ended_at # NullTime /\ InLastDay(r.created_at)}

\* A number is the fraction num / den; den = 0 stands for SQL's NULL.
SqlNull == [num |-> 0, den |-> 0]
Zero == [num |-> 0, den |-> 1]
SameNumber(a, b) == a.den # 0 /\ b.den # 0 /\ a.num * b.den = b.num * a.den

\* AVG(EXTRACT(EPOCH FROM (ended_at - started_at))): the rows whose difference
\* is NULL are left out, and the average of no value is NULL.
SqlAvg(S) ==
    LET V == {r \in S : r.started_at # NullTime /\ r.ended_at # NullTime}
    IN  IF V = {} THEN SqlNull
        ELSE [num |-> SumOver([r \in V |-> r.ended_at - r.started_at], V),
              den |-> Cardinality(V)]

\* Variant of OrZero: the fetched value as it is.
OrNothing(avg) == avg

\* cur.fetchone()['avg_duration_seconds'] or 0: None and a zero average both
\* give 0.
OrZero(avg) == IF avg.den = 0 \/ avg.num = 0 THEN Zero ELSE avg

\* float(avg_duration) raises TypeError on None.
FloatRaises(avg) == avg.den = 0

\* Variant of DictGet: a missing key counts as 1.
DictGetOne(d, key) == IF key \in DOMAIN d THEN d[key] ELSE 1

\* status_counts.get(key, 0)
DictGet(d, key) == IF key \in DOMAIN d THEN d[key] ELSE 0

\* get_queue_stats: three SELECTs and the dict built from them; no write, no
\* commit.
get_queue_stats ==
    /\ LET avg_duration == OrZero(SqlAvg(AvgRows))
       IN  last' = IF FloatRaises(avg_duration)
                     THEN Call("get_queue_stats", NoId, "raised", NoVal)
                     ELSE Call("get_queue_stats", NoId, "returned",
                               [status_counts |-> StatusCounts,
                                type_counts |-> TypeCounts,
                                avg_duration_seconds |-> avg_duration,
                                queued |-> DictGet(StatusCounts, "queued"),
                                processing |-> DictGet(StatusCounts, "started"),
                                completed |-> DictGet(StatusCounts, "finished"),
                                failed |-> DictGet(StatusCounts, "failed")])
    /\ UNCHANGED <<tasks, clock, txn, pc, cur, out, consecutive_errors, jobs, rq_queue,
                   hist, ext>>

NextStats == get_queue_stats

SpecStats == InitStats /\ [][NextStats]_vars

(***************************************************************************)
(* The retention sweep PostgresTaskQueue.cleanup_old_tasks, beside the     *)
(* other operations of the queue and one worker.  The clock counts days    *)
(* here.                                                                   *)
(***************************************************************************)

\* The values of days the sweep is called with.
CleanupDays == 0..MaxClock

\* Variant of OlderThan: created_at <= NOW() - INTERVAL '%s days'
NotYoungerThan(r, days) == r.created_at <= clock - days

\* WHERE created_at < NOW() - INTERVAL '%s days'
OlderThan(r, days) == r.created_at < clock - days

\* cleanup_old_tasks: the DELETE, conn.commit(), return cur.rowcount.  The
\* DELETE waits for a row that a claim in flight holds locked, so the call
\* completes only when none of its rows is locked.
cleanup_old_tasks(days) ==
    LET old == {r \in tasks : OlderThan(r, days)}
    IN  /\ \A r \in old : r.task_id \notin LockedIds
        /\ tasks' = tasks \ old
        /\ last' = Call("cleanup_old_tasks", NoId, "returned",
                        [status |-> None, days |-> days, deleted |-> Cardinality(old)])
        /\ UNCHANGED <<clock, txn, pc, cur, out, consecutive_errors, jobs, rq_queue,
                       hist, ext>>

Cleanup == \E days \in CleanupDays : cleanup_old_tasks(days)
StoreWorkerStep == Worker("w1")

NextStore ==
    \/ Tick
    \/ Enqueue
    \/ GetStatus
    \/ Cancel
    \/ StoreWorkerStep
    \/ get_queue_stats
    \/ Cleanup

SpecStore == Init /\ [][NextStore]_vars

(***************************************************************************)
(* The connection pool of PostgresTaskQueue.  Every method takes a         *)
(* connection before its try block and has a finally clause that puts it   *)
(* back; the callers are threads of one process on one pool.               *)
(***************************************************************************)
PoolOps ==
    {"enqueue_task", "get_task_status", "get_next_task", "update_task_status",
     "cancel_task", "get_queue_stats", "cleanup_old_tasks"}

\* The methods with an except Exception clause (conn.rollback() and a
\* return or a raise); get_task_status and get_queue_stats have none.
HasExcept(op) == op \notin {"get_task_status", "get_queue_stats"}

\* The methods whose except clause raises again; the others return None,
\* False or 0.
Reraises(op) == op \in {"enqueue_task", "update_task_status"}

\* Variant of FinallyReturns: the connection is put back on the path that
\* returns only.
ReturnsOnSuccess(outcome) == outcome = "returned"

\* finally: self._return_connection(conn), on every way out of the try.
FinallyReturns(outcome) == TRUE

\* A caller enters a method.
begin_call(c, op) ==
    /\ calls[c].at = "idle"
    /\ calls' = [calls EXCEPT ![c] = [op |-> op, at |-> "getconn", outcome |-> None]]
    /\ UNCHANGED <<tasks, clock, txn, pc, cur, out, consecutive_errors, jobs, rq_queue, last,
                   hist, env, backoff, executions, checked_out>>

\* conn = self._get_connection(): self.pool.getconn() hands out a connection,
\* or raises PoolError when PoolSize connections are out; the call stands
\* before the try, so the method ends with that exception.
get_connection(c) ==
    /\ calls[c].at = "getconn"
    /\ IF checked_out < PoolSize
         THEN /\ checked_out' = checked_out + 1
              /\ calls' = [calls EXCEPT ![c].at = "try"]
         ELSE /\ calls' = [calls EXCEPT ![c] = Idle("raised")]
              /\ UNCHANGED checked_out
    /\ UNCHANGED <<tasks, clock, txn, pc, cur, out, consecutive_errors, jobs, rq_queue, last,
                   hist, env, backoff, executions>>

\* The try block: it returns, or a statement in it raises and control goes
\* to the except clause, or straight to the finally clause without one.
try_block(c, raises) ==
    /\ calls[c].at = "try"
    /\ calls' = [calls EXCEPT ![c] =
                    IF ~raises THEN [@ EXCEPT !.at = "finally", !.outcome = "returned"]
                    ELSE IF HasExcept(@.op) THEN [@ EXCEPT !.at = "except"]
                    ELSE [@ EXCEPT !.at = "finally", !.outcome = "raised"]]
    /\ UNCHANGED <<tasks, clock, txn, pc, cur, out, consecutive_errors, jobs, rq_queue, last,
                   hist, env, backoff, executions, checked_out>>

\* The except clause: conn.rollback(), which raises on a lost connection,
\* then the raise or the return.
except_clause(c, rollback_raises) ==
    /\ calls[c].at = "except"
    /\ calls' = [calls EXCEPT ![c] =
                    [@ EXCEPT !.at = "finally",
                              !.outcome = IF rollback_raises \/ Reraises(calls[c].op)
                                            THEN "raised" ELSE "returned"]]
    /\ UNCHANGED <<tasks, clock, txn, pc, cur, out, consecutive_errors, jobs, rq_queue, last,
                   hist, env, backoff, executions, checked_out>>

\* The finally clause, and the end of the method.
return_connection(c) ==
    /\ calls[c].at = "finally"
    /\ checked_out' =
          IF FinallyReturns(calls[c].outcome) THEN checked_out - 1 ELSE checked_out
    /\ calls' = [calls EXCEPT ![c] = Idle(calls[c].outcome)]
    /\ UNCHANGED <<tasks, clock, txn, pc, cur, out, consecutive_errors, jobs, rq_queue, last,
                   hist, env, backoff, executions>>

BeginCall == \E c \in Callers, op \in PoolOps : begin_call(c, op)
GetConnection == \E c \in Callers : get_connection(c)
TryBlock == \E c \in Callers, raises \in BOOLEAN : try_block(c, raises)
ExceptClause == \E c \in Callers, rollback_raises \in BOOLEAN : except_clause(c, rollback_raises)
ReturnConnection == \E c \in Callers : return_connection(c)

NextPool ==
    \/ BeginCall
    \/ GetConnection
    \/ TryBlock
    \/ ExceptClause
    \/ ReturnConnection

SpecPool == Init /\ [][NextPool]_vars

(***************************************************************************)
(* Properties.                                                             *)
(***************************************************************************)

\* The claims in flight: locked by get_next_task, not yet committed.
InFlight == {w \in Workers : txn[w].task_id # NoId}

\* C1: under concurrent workers every task is returned by get_next_task at
\* most once and to one worker only: no task_id is returned twice, no two
\* workers hold the same task, and the number of successful claims (returned
\* or in flight) is the smaller of the number of tasks and the number of
\* get_next_task calls that found a queued row no other claim held.
C1_EachTaskClaimedOnce ==
    /\ \A t \in TaskIds : claims[t] <= 1
    /\ \A w, v \in Workers :
          (w # v /\ cur[w].task_id # NoId) => cur[w].task_id # cur[v].task_id
    /\ \A w, v \in Workers :
          (w # v /\ txn[w].task_id # NoId) => txn[w].task_id # txn[v].task_id
    /\ SumOver(claims, TaskIds) + Cardinality(InFlight) = Min(Cardinality(tasks), served)

\* Two workers hold two different tasks at the same time.
C1_Witness ==
    /\ claims[1] = 1 /\ claims[2] = 1
    /\ \A w \in Workers : cur[w].task_id # NoId /\ pc[w] = "execute"

\* C2: a row whose status is finished or failed never changes again, whatever
\* enqueue, get_next_task, cancel_task and the workers' reports do.
C2_TerminalIsFinal ==
    [][\A r \in tasks : r.status \in TerminalStatuses => r \in tasks']_vars

\* A task was cancelled while started, and the worker that ran it has since
\* reported its outcome and been refused.
C2_Witness ==
    \E r \in tasks, w \in Workers :
        /\ r.status = "failed" /\ r.error = "Cancelled by user" /\ r.worker_id = w
        /\ consecutive_errors[w] >= 1 /\ pc[w] = "loop"

\* C5: cancel_task, on the backend that is active, returns True only if the
\* call moved a queued or started task to failed, and get_task_status then
\* reports failed with the error text "cancelled".
C5_ErrorTextCancelled ==
    [][\A id \in TaskIds :
          /\ (last'.op = "cancel_task" /\ last'.ret = "True" /\ cancel_task(id)) =>
                /\ \E r \in tasks :
                      r.task_id = id /\ r.status \in {"queued", "started"} /\ r \notin tasks'
                /\ StatusOf(id)'.status = "failed"
                /\ StatusOf(id)'.error = "cancelled"
          /\ (last'.op = "cancel_task" /\ last'.ret = "True" /\ last'.task_id = id
              /\ \E reachable \in BOOLEAN : redis_cancel_task(id, reachable)) =>
                /\ jobs[id] \in {"queued", "started"}
                /\ RedisStatusDict(id)'.status = "failed"
                /\ RedisStatusDict(id)'.error = "cancelled"]_vars

\* C7: a task cancelled while queued is never returned by get_next_task, is
\* never locked by a claim and never reaches _execute_task.
C7_CancelledQueuedNeverClaimed ==
    \A t \in cancelled_queued :
        /\ claims[t] = 0
        /\ \A w \in Workers : cur[w].task_id # t /\ txn[w].task_id # t

\* A worker polled after the cancellation and claimed a task that was behind
\* the cancelled one in the claim order.
C7_Witness ==
    \E r1, r2 \in tasks :
        /\ r1.task_id \in cancelled_queued
        /\ r2.worker_id # None
        /\ r2.started_at > r1.ended_at
        /\ \/ r1.created_at < r2.created_at
           \/ r1.created_at = r2.created_at /\ r1.task_id < r2.task_id

\* None and the empty dict are one result payload: a row stores NULL for both.
SameResult(a, b) == a = b \/ {a, b} \subseteq {None, EmptyDict}

\* A write repeats a terminal row: the row's status, with the row's result
\* (finished) or the row's error (failed).
RepeatsRow(wr, r) ==
    /\ wr.status = r.status
    /\ IF r.status = "finished" THEN SameResult(wr.result, r.result)
       ELSE wr.error = r.error

C9_EnqueuedEventuallyFinished ==
    /\ \A t \in TaskIds :
          (\E r \in RowsOf(t) : r.task_type \in KnownTaskTypes)
              ~> (StatusOf(t).status = "finished")
    /\ \A t \in TaskIds, res \in ContractResults :
          (\E w \in Workers :
              pc[w] = "report_finished" /\ cur[w].task_id = t /\ out[w] = res)
              ~> (StatusOf(t).status = "finished" /\ StatusOf(t).result = res)

\* get_task_status reports a task finished with the result the contract built
\* when the analysis raised.
C9_Witness ==
    \E t \in TaskIds :
        StatusOf(t).status = "finished" /\ StatusOf(t).result = "analysis_failed"

\* The report of worker w is the report of what _execute_task raised.
ReportsRaise(w) ==
    /\ pc[w] = "report_failed"
    /\ ExecuteRaises(cur[w])
    /\ out[w] = "Unknown task type: " \o cur[w].task_type

C4_DuplicateEnqueueRejected ==
    [][\A id \in TaskIds :
          /\ (last'.op = "enqueue_task" /\ last'.task_id = id
              /\ id \in PresentIds /\ (\E ty \in TaskTypes : enqueue_task(id, ty)))
                => (last'.ret = "raised" /\ tasks' = tasks)
          /\ (last'.op = "enqueue_task" /\ last'.task_id = id
              /\ id \in RedisPresentIds
              /\ \E reachable \in BOOLEAN : redis_enqueue_task(id, reachable))
                => (last'.ret = "raised" /\ jobs' = jobs /\ rq_queue' = rq_queue)]_vars

\* C6: cancel_task on a task that is finished, failed or unknown returns
\* false and changes nothing stored, on whichever backend.
C6_CancelTerminalIsNoOp ==
    [][\A id \in TaskIds :
          /\ (last'.op = "cancel_task" /\ last'.task_id = id
              /\ (\A r \in RowsOf(id) : r.status \in TerminalStatuses)
              /\ cancel_task(id))
                => (last'.ret = "False" /\ tasks' = tasks)
          /\ (last'.op = "cancel_task" /\ last'.task_id = id
              /\ jobs[id] \in TerminalStatuses \cup {None}
              /\ \E reachable \in BOOLEAN : redis_cancel_task(id, reachable))
                => (last'.ret = "False" /\ jobs' = jobs /\ rq_queue' = rq_queue)]_vars

\* C8: get_task_status answers an unknown id with status not_found, without
\* raising and without storing anything, and never answers not_found for a
\* task that is stored, on either backend.
C8_NotFoundOnlyWhenAbsent ==
    [][\A id \in TaskIds :
          /\ (last'.op = "get_task_status" /\ last'.task_id = id /\ get_task_status(id))
                => /\ last'.ret = "returned"
                   /\ tasks' = tasks
                   /\ (last'.val.status = "not_found") <=> (id \notin PresentIds)
          /\ (last'.op = "get_task_status" /\ last'.task_id = id
              /\ \E reachable \in BOOLEAN : redis_get_task_status(id, reachable))
                => /\ last'.ret = "returned"
                   /\ jobs' = jobs /\ rq_queue' = rq_queue
                   /\ (last'.val.status = "not_found") <=> (id \notin RedisPresentIds)]_vars

\* C11: once the termination signal has set running to false, the worker
\* starts no further get_next_task call, wherever its loop was when the
\* signal arrived.
C11_NoPollAfterSignal ==
    [][\A w \in Workers :
          ~running[w] => ~(pc[w] = "poll" /\ pc'[w] # "poll")]_vars

C13_DeadBackendStopsWorker ==
    \A w \in FaultWorkers : (~postgres_up) ~> (pc[w] = "stopped")

\* C14: a backend failure during get_next_task or during the report of a
\* finished task adds one to consecutive_errors and sends the worker to its
\* backoff, and no task is recorded as failed with the backend's error; a
\* raise of the execution contract is reported without adding to the counter.
C14_SystemErrorsAreNotTaskErrors ==
    [][\A w \in Workers :
          /\ (~postgres_up /\ pc[w] \in {"poll", "commit", "report_finished"}
              /\ pc'[w] # pc[w]) =>
                /\ consecutive_errors'[w] = consecutive_errors[w] + 1
                /\ pc'[w] \in {"loop", "stopped"}
          /\ (pc[w] = "report_failed" /\ pc'[w] # pc[w]) =>
                /\ pc'[w] = "loop"
                /\ consecutive_errors'[w] = 0
                /\ \A r \in tasks' : r.error # BackendErrorText]_vars

\* C18: a call whose access to the backend failed does not end like a call
\* that found nothing: get_next_task does not end like a poll of an empty
\* queue, cancel_task does not return False, get_task_status does not answer
\* not_found.
C18_BackendErrorsAreDistinguishable ==
    [][/\ \A w \in Workers :
             (\E caught \in BOOLEAN : get_next_task_fails(w, caught)) =>
                 ~(pc'[w] = "loop" /\ consecutive_errors'[w] = 0)
       /\ \A id \in TaskIds :
             /\ (\E caught \in BOOLEAN : cancel_task_fails(id, caught)) =>
                     last'.ret # "False"
             /\ (last'.op = "get_task_status" /\ redis_get_task_status(id, FALSE)) =>
                     last'.val.status # "not_found"]_vars

\* C19: a task whose triage analysis failed is stored as failed with an
\* error, never otherwise.
C19_FailedAnalysisIsFailedTask ==
    \A r \in tasks :
        r.result = "analysis_failed" => (r.status = "failed" /\ r.error # None)

\* The backend of that name answers.
BackendUp(backend_name) ==
    \/ backend_name = "postgresql" /\ postgres_up
    \/ backend_name = "redis" /\ redis_up

\* C15: a UnifiedTaskQueue constructed while PostgreSQL cannot be reached has
\* the Redis backend, one constructed while it can be reached has the
\* PostgreSQL backend, and get_queue_stats on a queue whose backend answers
\* returns with the field backend naming that backend.
C15_FallbackReportsBackend ==
    [][/\ (last'.op = "get_unified_queue" /\ unified = NoQueue
           /\ get_unified_queue(TRUE)) =>
               unified'.backend_name = IF postgres_up THEN "postgresql" ELSE "redis"
       /\ (last'.op = "get_queue_stats" /\ unified_get_queue_stats
           /\ BackendUp(unified.backend_name)) =>
               (last'.ret = "returned" /\ last'.val.status = unified.backend_name)]_vars

\* C16: whatever USE_POSTGRESQL is, when at least one backend can be reached
\* the construction of the UnifiedTaskQueue succeeds, with a backend that
\* can be reached.
C16_ConstructsWithReachableBackend ==
    [][\A use_postgresql \in BOOLEAN :
          (last'.op = "get_unified_queue" /\ unified = NoQueue
           /\ (postgres_up \/ redis_up) /\ get_unified_queue(use_postgresql)) =>
              /\ last'.ret = "returned"
              /\ unified' # NoQueue
              /\ BackendUp(unified'.backend_name)]_vars

\* C17: once get_unified_queue has returned a queue, no call changes the
\* instance or its backend, a failing call included, and every later
\* get_unified_queue returns that instance.
C17_BackendChosenOnce ==
    [][unified # NoQueue =>
          /\ unified' = unified
          /\ last'.op = "get_unified_queue" =>
                (last'.ret = "returned" /\ last'.task_id = unified.instance
                 /\ last'.val.status = unified.backend_name)]_vars

\* get_unified_queue has returned the instance again while its backend, the
\* PostgreSQL one, does not answer and the other backend does.
C17_Witness ==
    /\ unified.backend_name = "postgresql" /\ ~postgres_up /\ redis_up
    /\ last.op = "get_unified_queue" /\ last.ret = "returned"
    /\ last.task_id = unified.instance

\* C20: what a caller of UnifiedTaskQueue observes does not depend on the
\* backend: the status record of a stored task has the fields of the
\* PostgreSQL record and a status among queued, started, finished and
\* failed, and enqueue and get_queue_stats return when the backend answers.
C20_BackendsAgree ==
    [][/\ \A id \in TaskIds :
             (last'.op = "get_task_status" /\ last'.task_id = id
              /\ unified_get_task_status(id) /\ last'.ret = "returned"
              /\ last'.val.status # "not_found") =>
                 /\ last'.val.status \in RowStatuses
                 /\ StatusKeys(unified.backend_name, last'.val.status) = PostgresStatusKeys
       /\ (last'.op = "enqueue_task" /\ unified_enqueue_consumer_triage
           /\ BackendUp(unified.backend_name)) => last'.ret = "returned"
       /\ (last'.op = "get_queue_stats" /\ unified_get_queue_stats
           /\ BackendUp(unified.backend_name)) => last'.ret = "returned"]_vars

\* The finished rows whose ended_at lies in the last 24 hours.
FinishedInWindow ==
    {r \in tasks : r.status = "finished" /\ r.ended_at # NullTime /\ InLastDay(r.ended_at)}

\* C21: avg_duration_seconds of get_queue_stats is the mean of ended_at -
\* started_at over exactly the finished tasks whose ended_at lies in the
\* last 24 hours (0 when there is none).
C21_AverageOverEndedInWindow ==
    last.op = "get_queue_stats" =>
        /\ last.ret = "returned"
        /\ SameNumber(last.val.avg_duration_seconds, OrZero(SqlAvg(FinishedInWindow)))

\* C22: get_queue_stats always returns; avg_duration_seconds is 0 when no
\* finished task lies in the window, the counters queued, processing,
\* completed and failed are 0 for every status without rows, and the call
\* changes no row.
C22_EmptyWindowIsZero ==
    [][last'.op = "get_queue_stats" =>
          /\ last'.ret = "returned"
          /\ FinishedInWindow = {} => last'.val.avg_duration_seconds = Zero
          /\ \A st \in RowStatuses :
                (\A r \in tasks : r.status # st) =>
                    /\ st = "queued" => last'.val.queued = 0
                    /\ st = "started" => last'.val.processing = 0
                    /\ st = "finished" => last'.val.completed = 0
                    /\ st = "failed" => last'.val.failed = 0
          /\ tasks' = tasks]_vars

C22_Witness ==
    /\ last.op = "get_queue_stats"
    /\ \E r \in tasks : r.status = "finished"
    /\ FinishedInWindow = {}
    /\ last.val.avg_duration_seconds = Zero
    /\ last.val.queued = 0
    /\ last.val.completed > 0

\* The worker reports a claimed task whose task_type _execute_task does not
\* know.
ReportsUnknownType(w) ==
    /\ pc[w] = "report_failed"
    /\ cur[w].task_type \notin KnownTaskTypes

C24_CounterBoundedAndBackoffExponential ==
    \A w \in Workers :
        /\ consecutive_errors[w] \in 0..5
        /\ (pc[w] = "loop" /\ consecutive_errors[w] > 0) =>
              /\ consecutive_errors[w] < 5
              /\ backoff[w] = Min(30, 2 ^ consecutive_errors[w])
        /\ consecutive_errors[w] = 5 => pc[w] = "stopped" /\ backoff[w] = 0
        /\ pc[w] \notin {"loop", "stopped"} => backoff[w] = 0

\* A worker sleeps 16 seconds after its fourth consecutive system error, and
\* a worker has stopped on its fifth.
C24_Witness ==
    \E w \in Workers :
        /\ consecutive_errors[w] = 4 /\ pc[w] = "loop" /\ backoff[w] = 16

\* C25: an iteration of the worker loop whose poll succeeded with no task, or
\* whose task was reported, ends with the consecutive-error counter at zero;
\* an iteration whose backend call failed (the poll, or the failed report)
\* counts as a system error: it adds one to the counter and does not reset it.
C25_CounterResetOnlyOnSuccess ==
    [][\A w \in FaultWorkers :
          /\ (/\ postgres_up /\ pc'[w] # pc[w]
              /\ \/ pc[w] = "commit" /\ txn[w].task_id = NoId
                 \/ pc[w] = "report_finished" /\ pc'[w] = "loop"
                 \/ /\ pc[w] = "report_failed"
                    /\ ~UpdateRaises(cur[w].task_id, "failed", None, TaskErrorText(out[w])))
                => consecutive_errors'[w] = 0
          /\ (/\ ~postgres_up /\ pc'[w] # pc[w]
              /\ pc[w] \in {"poll", "commit", "report_failed"})
                => consecutive_errors'[w] = consecutive_errors[w] + 1]_vars

\* C26: the queue never retries: no step moves a task that is started,
\* finished or failed back to queued; every task is returned by
\* get_next_task at most once; attempt_count is the number of times the task
\* was claimed and never exceeds 1; and _execute_task runs at most once for
\* a task.
C26_NeverRetried ==
    /\ [](\A t \in TaskIds :
            /\ claims[t] <= 1
            /\ executions[t] <= claims[t]
            /\ \A r \in RowsOf(t) : r.attempt_count = claims[t] /\ r.attempt_count <= 1)
    /\ [][\A t \in TaskIds :
            (\E r \in RowsOf(t) : r.status # "queued") =>
                (\A q \in RowsOf(t)' : q.status # "queued")]_vars

\* A task that failed in its one execution is not offered again: the worker
\* that had it polls and finds no task.
C26_Witness ==
    \E r \in tasks, w \in Workers :
        /\ r.status = "failed" /\ r.worker_id = w /\ r.error # CancelledText
        /\ r.attempt_count = 1 /\ executions[r.task_id] = 1
        /\ pc[w] = "commit" /\ txn[w].task_id = NoId
        /\ \A q \in tasks : q.status # "queued"

\* C27: in every row, result is set only if the status is finished and error
\* is set only if the status is failed, however the completion reports of
\* the workers and cancel_task interleave.
C27_ResultAndErrorMatchStatus ==
    \A r \in tasks :
        /\ r.result # None => r.status = "finished"
        /\ r.error # None => r.status = "failed"

\* A task was cancelled while a worker executed it, and the worker has made
\* its report since: the row is failed with the cancel's error and no result.
C27_Witness ==
    \E r \in tasks :
        /\ r.status = "failed" /\ r.error = CancelledText /\ r.result = None
        /\ r.worker_id # None
        /\ executions[r.task_id] = 1
        /\ \A w \in Workers : cur[w].task_id # r.task_id

\* C28: a queued task has neither worker_id nor started_at; a started task
\* carries the worker_id of the one worker get_next_task returned it to; and
\* a worker_id, once set, is never changed.
C28_WorkerIdIsTheClaimant ==
    /\ [](\A r \in tasks :
            /\ r.status = "queued" => r.worker_id = None /\ r.started_at = NullTime
            /\ r.status = "started" =>
                  /\ r.worker_id \in Workers
                  /\ \A w \in Workers : cur[w].task_id = r.task_id <=> w = r.worker_id)
    /\ [][\A t \in TaskIds : \A r \in RowsOf(t) :
            r.worker_id # None => \A q \in RowsOf(t)' : q.worker_id = r.worker_id]_vars

\* Two workers each hold a started task under their own id, beside a task
\* one of them had before.
C28_Witness ==
    \E r1, r2 \in tasks :
        /\ r1.status = "started" /\ r1.worker_id = "w1" /\ cur["w1"].task_id = r1.task_id
        /\ r2.status = "started" /\ r2.worker_id = "w2" /\ cur["w2"].task_id = r2.task_id

\* The queued rows.
Queued == {r \in tasks : r.status = "queued"}

\* C29: a get_next_task call made while no other claim is in flight takes
\* the queued task with the smallest created_at, the smallest task_id among
\* equals, or none if no task is queued; and the task a call returns is the
\* one it took, which was queued until then.
C29_OldestQueuedFirst ==
    [][\A w \in Workers :
          /\ (/\ pc[w] = "poll" /\ pc'[w] = "commit"
              /\ \A v \in Workers : txn[v] = NoTxn)
                => IF Queued = {} THEN txn'[w] = NoTxn
                   ELSE \E r \in Queued :
                          /\ txn'[w].task_id = r.task_id
                          /\ \A q \in Queued :
                                \/ r.created_at < q.created_at
                                \/ r.created_at = q.created_at /\ r.task_id <= q.task_id
          /\ (pc[w] = "commit" /\ pc'[w] = "execute")
                => /\ cur'[w].task_id = txn[w].task_id
                   /\ \A r \in RowsOf(txn[w].task_id) : r.status = "queued"]_vars

\* A worker alone at the queue took the older of two queued tasks, and that
\* one has the larger task_id.
C29_Witness ==
    \E w \in Workers, r, q \in tasks :
        /\ pc[w] = "execute" /\ cur[w].task_id = r.task_id
        /\ r.status = "started" /\ r.worker_id = w
        /\ q.status = "queued" /\ q.created_at > r.created_at /\ q.task_id < r.task_id
        /\ \A v \in Workers \ {w} : pc[v] = "loop" /\ claims[q.task_id] = 0

\* C30: get_next_task does not wait for a row that a claim in flight holds.
\* While worker A's claim of a task is in flight, worker B's get_next_task
\* can take its steps; it takes a queued task other than A's if there is
\* one, and no task otherwise.
C30_ClaimSkipsLockedRows ==
    /\ [](\A a, b \in Workers :
            (a # b /\ txn[a].task_id # NoId) =>
                /\ pc[b] = "poll" => ENABLED get_next_task_execute(b)
                /\ pc[b] = "commit" => ENABLED get_next_task_commit(b))
    /\ [][\A a, b \in Workers :
            (/\ a # b /\ txn[a].task_id # NoId
             /\ pc[b] = "poll" /\ pc'[b] = "commit") =>
                /\ txn'[b].task_id # txn[a].task_id
                /\ IF \E r \in Queued : r.task_id # txn[a].task_id
                     THEN \E r \in Queued : txn'[b].task_id = r.task_id
                     ELSE txn'[b] = NoTxn]_vars

\* Worker B was given a task while worker A's claim of an older task was in
\* flight: A's task was queued before B's call and is still queued, so B's
\* call passed over it.
C30_Witness ==
    \E a, b \in Workers :
        /\ a # b
        /\ pc[a] = "commit" /\ txn[a].task_id # NoId
        /\ pc[b] = "execute" /\ cur[b].task_id \notin {NoId, txn[a].task_id}
        /\ \E x \in RowsOf(txn[a].task_id), y \in RowsOf(cur[b].task_id) :
              /\ y.status = "started" /\ y.worker_id = b
              /\ x.status = "queued"
              /\ x.created_at < y.created_at /\ x.created_at < y.started_at

\* C31: rows are removed by cleanup_old_tasks only.  A step of any other
\* operation keeps every row's task_id in the table; cleanup_old_tasks(days)
\* removes exactly the rows created before NOW() - days, returns how many
\* they were, and leaves the other rows as they are.
C31_OnlyCleanupDeletes ==
    [][IF last'.op = "cleanup_old_tasks" /\ UNCHANGED <<clock, pc, txn>>
         THEN /\ tasks' = {r \in tasks : ~(r.created_at < clock - last'.val.days)}
              /\ last'.val.deleted = Cardinality(tasks) - Cardinality(tasks')
              /\ last'.ret = "returned"
         ELSE \A r \in tasks : \E q \in tasks' : q.task_id = r.task_id]_vars

\* The sweep removed one of two rows: the older one is gone, the younger one
\* is still stored.
C31_Witness ==
    /\ last.op = "cleanup_old_tasks" /\ last.val.deleted = 1
    /\ \E r \in tasks : r.created_at = clock - last.val.days
    /\ Cardinality(tasks) = 1

\* C34: the four counters get_queue_stats returns account for every row:
\* queued + processing + completed + failed is the number of rows of the
\* table, and every row's status is one of queued, started, finished and
\* failed, after any sequence of enqueue, claim, report, cancel and sweep.
C34_CountersCoverEveryRow ==
    /\ [](\A r \in tasks : r.status \in {"queued", "started", "finished", "failed"})
    /\ [][(last'.op = "get_queue_stats" /\ UNCHANGED <<tasks, clock, pc, txn>>) =>
            /\ last'.ret = "returned"
            /\ last'.val.queued + last'.val.processing + last'.val.completed
                  + last'.val.failed = Cardinality(tasks)]_vars

\* The counters of a table that holds a started and a failed row, and no
\* queued or finished one.
C34_Witness ==
    /\ last.op = "get_queue_stats"
    /\ last.val.processing = 1 /\ last.val.failed = 1
    /\ last.val.queued = 0 /\ last.val.completed = 0
    /\ \E r, q \in tasks : r.status = "started" /\ q.status = "failed"
    /\ Cardinality(tasks) = 2

\* C32: at most one started task is bound to a worker's worker_id at any
\* time, also after an iteration whose completion report failed with a
\* system error.
C32_OneStartedTaskPerWorker ==
    \A w \in Workers :
        Cardinality({r \in tasks : r.status = "started" /\ r.worker_id = w}) <= 1

\* C33: when the outages of the backend come to an end (from some moment on
\* it answers for good) and the worker keeps running, every task that is
\* started eventually is finished or failed; a completion report that
\* failed, or the worker's stop at the error ceiling, does not leave the
\* task started forever.
C33_StartedEventuallyTerminal ==
    (<>[]postgres_up) =>
        \A t \in TaskIds :
            (\E r \in RowsOf(t) : r.status = "started")
                ~> (\E r \in RowsOf(t) : r.status \in TerminalStatuses)

\* The callers that are in a method of PostgresTaskQueue.
InProgress == {c \in Callers : calls[c].at # "idle"}

\* C35: every method of PostgresTaskQueue puts back the connection it took,
\* on the path that returns and on the paths that raise: the number of
\* connections out of the pool never exceeds the number of methods in
\* progress, and is zero when none is in progress.
C35_ConnectionsAreReturned ==
    /\ checked_out >= 0
    /\ checked_out <= Cardinality(InProgress)
    /\ InProgress = {} => checked_out = 0

\* No method is in progress and no connection is out, after a call that
\* returned, a call that raised, and a call that found the pool exhausted.
C35_Witness ==
    /\ InProgress = {}
    /\ checked_out = 0
    /\ \E c \in Callers : calls[c].outcome = "returned"
    /\ \E c \in Callers : calls[c].outcome = "raised"

====
